---- MODULE Spec2Model ----
(***************************************************************************)
(* A model of the TDS Virtual TA client (frontend/src/App.js): the React   *)
(* component App with its four state fields, the two asynchronous          *)
(* handlers handleSubmit and checkStatus split at their awaits, and the    *)
(* requests they have in flight.  Texts are sequences of characters, so    *)
(* that String.prototype.trim, prefixes and lengths are computed.  With it *)
(* go the evaluation configuration (SpecEval), the question endpoint of    *)
(* the TA service as its contract states it (SpecService) and the smoke    *)
(* test api_test.sh (SpecSmoke).                                           *)
(***************************************************************************)
EXTENDS Integers, Sequences, FiniteSets, TLC

(* ------------------------------ bounds -------------------------------- *)

\* Requests (POST and GET together) the client issues in one run.
MaxRequests == 2
\* Longest text typed into the textarea.
MaxLen == 1
\* How many of the sample-question buttons are clicked in a run.
MaxSample == 1

(* ------------------------------- texts -------------------------------- *)

\* White space removed by String.prototype.trim, as far as it is typed here.
Whitespace == {" ", "\n", "\t"}

\* The characters typed into the textarea.
Alphabet == {" ", "a"}

ErrorText ==
  <<
    "E", "r", "r", "o", "r", ":", " ", "C", "o", "u", "l", "d", " ", "n",
    "o", "t", " ", "g", "e", "t", " ", "r", "e", "s", "p", "o", "n", "s",
    "e", " ", "f", "r", "o", "m", " ", "A", "P", "I", "."
  >>

ErrorPrefix ==
  << "E", "r", "r", "o", "r", ":" >>

Sample1 ==
  <<
    "S", "h", "o", "u", "l", "d", " ", "I", " ", "u", "s", "e", " ", "g",
    "p", "t", "-", "4", "o", "-", "m", "i", "n", "i", " ", "w", "h", "i",
    "c", "h", " ", "A", "I", " ", "p", "r", "o", "x", "y", " ", "s", "u",
    "p", "p", "o", "r", "t", "s", ",", " ", "o", "r", " ", "g", "p", "t",
    "3", ".", "5", " ", "t", "u", "r", "b", "o", "?"
  >>

Sample2 ==
  <<
    "W", "h", "a", "t", " ", "P", "y", "t", "h", "o", "n", " ", "l", "i",
    "b", "r", "a", "r", "i", "e", "s", " ", "a", "r", "e", " ", "c", "o",
    "v", "e", "r", "e", "d", " ", "i", "n", " ", "t", "h", "e", " ", "T",
    "D", "S", " ", "c", "o", "u", "r", "s", "e", "?"
  >>

Sample3 ==
  <<
    "H", "o", "w", " ", "d", "o", " ", "I", " ", "h", "a", "n", "d", "l",
    "e", " ", "m", "a", "c", "h", "i", "n", "e", " ", "l", "e", "a", "r",
    "n", "i", "n", "g", " ", "m", "o", "d", "e", "l", "s", " ", "i", "n",
    " ", "a", "s", "s", "i", "g", "n", "m", "e", "n", "t", "s", "?"
  >>

Sample4 ==
  <<
    "W", "h", "a", "t", " ", "a", "r", "e", " ", "t", "h", "e", " ", "k",
    "e", "y", " ", "t", "o", "p", "i", "c", "s", " ", "i", "n", " ", "T",
    "o", "o", "l", "s", " ", "i", "n", " ", "D", "a", "t", "a", " ", "S",
    "c", "i", "e", "n", "c", "e", "?"
  >>

sampleQuestions == << Sample1, Sample2, Sample3, Sample4 >>

\* The texts of length at most n over the typed alphabet.
RECURSIVE TextsUpTo(_)
TextsUpTo(n) ==
  IF n = 0 THEN { <<>> }
  ELSE LET shorter == TextsUpTo(n - 1)
       IN  shorter \cup { Append(t, c) : t \in shorter, c \in Alphabet }

Typed == TextsUpTo(MaxLen)

\* String.prototype.trim: white space dropped at both ends.
RECURSIVE TrimStart(_)
TrimStart(s) ==
  IF s # <<>> /\ Head(s) \in Whitespace THEN TrimStart(Tail(s)) ELSE s

RECURSIVE TrimEnd(_)
TrimEnd(s) ==
  IF s # <<>> /\ s[Len(s)] \in Whitespace
  THEN TrimEnd(SubSeq(s, 1, Len(s) - 1))
  ELSE s

Trim(s) == TrimEnd(TrimStart(s))

\* !question.trim(): the empty string is the only falsy string.
IsBlankNoTrim(q) == q = <<>>

IsBlank(q) == Trim(q) = <<>>

StartsWith(s, p) == Len(s) >= Len(p) /\ SubSeq(s, 1, Len(p)) = p

(* ---------------------------- JSON values ----------------------------- *)

\* useState(null)
Null == [tag |-> "null"]

\* The Answer the catch block substitutes.
ErrorAnswer == [answer |-> ErrorText, links |-> <<>>]

\* The answers of the documented response format.
AnswerTextA ==
  <<
    "Y", "o", "u", " ", "m", "u", "s", "t", " ", "u", "s", "e", " ", "g",
    "p", "t", "-", "3", ".", "5", "-", "t", "u", "r", "b", "o", "-", "0",
    "1", "2", "5", ",", " ", "e", "v", "e", "n", " ", "i", "f", " ", "t",
    "h", "e", " ", "A", "I", " ", "P", "r", "o", "x", "y", " ", "o", "n",
    "l", "y", " ", "s", "u", "p", "p", "o", "r", "t", "s", " ", "g", "p",
    "t", "-", "4", "o", "-", "m", "i", "n", "i", ".", ".", "."
  >>

AnswerTextB ==
  <<
    "B", "a", "s", "e", "d", " ", "o", "n", " ", "t", "h", "e", " ", "c",
    "o", "u", "r", "s", "e", " ", "m", "a", "t", "e", "r", "i", "a", "l",
    "s", ".", ".", "."
  >>

LinkA ==
  [url |-> "https://discourse.onlinedegree.iitm.ac.in/t/ga5-question-8-clarification/155939/4",
   text |-> "Use the model that's mentioned in the question."]

LinkB ==
  [url |-> "https://discourse.onlinedegree.iitm.ac.in/t/...",
   text |-> "Discussion title or content preview"]

\* Bodies the question endpoint sends with a 2xx status.
AnswerBodies ==
  { [answer |-> AnswerTextB, links |-> << LinkB >>],
    [answer |-> AnswerTextB, links |-> <<>>] }

\* Bodies sent with a non-2xx status (FastAPI's {"detail": ...}).
ErrorBodies == { [detail |-> "Field required"] }

\* Bodies the status endpoint sends with a 2xx status.
StatusBodies ==
  { [status |-> "running", data_loaded |-> TRUE,
     total_documents |-> 3, openai_configured |-> TRUE],
    [status |-> "starting", data_loaded |-> FALSE,
     total_documents |-> 0, openai_configured |-> FALSE] }

\* HTTP status codes of a response.
StatusCodes == {200, 422, 500}

IsOk(code) == code >= 200 /\ code <= 299

\* What response.json() resolves with, by endpoint and status code of the
\* reply.
JsonBodiesOf(kind, code) ==
  IF ~IsOk(code) THEN ErrorBodies
  ELSE IF kind = "POST" THEN AnswerBodies ELSE StatusBodies

(* ------------------------------- state -------------------------------- *)

VARIABLES
  question,     \* useState(''): the latest value set
  answer,       \* useState(null)
  loading,      \* useState(false)
  status,       \* useState(null)
  view,         \* the committed render: the handlers' closure and the DOM
  syncPending,  \* an update of a click waits for the commit ending its task
  inflight,     \* the requests issued and not yet settled
  nextId,       \* the ordinal of the next request
  last,         \* the request sent or the reply handled by the latest step
  posts,        \* POST requests issued so far
  accepted,     \* submit events handleSubmit accepted so far
  unhandled,    \* whether a handler's promise rejected
  newest,       \* the latest-issued status query answered 2xx so far, and
                \* the StatusReport it was answered with
  evalPrompt,   \* the evaluation harness: the prompt of the latest run
  evalTest,     \* the test case of the latest run
  output,       \* the reply the latest run got: status code and body
  evalPass,     \* whether the typed assertions of the latest run passed
  request,      \* the TA service: the body of the latest POST to /api/
  serviceReply, \* the status code and body it replied with
  tests_run,    \* api_test.sh: the checks started
  tests_passed, \* the checks that passed
  observed,     \* the status codes curl printed, check by check
  exit_code     \* the exit status of the script, once it has exited

\* The state of the React client.
clientVars ==
  << question, answer, loading, status, view, syncPending, inflight, nextId,
     last, posts, accepted, unhandled, newest >>

\* The state of the evaluation harness.
evalVars == << evalPrompt, evalTest, output, evalPass >>

\* The state of the TA service, as its one contract shows it.
serviceVars == << request, serviceReply >>

\* The state of the smoke-test script.
smokeVars == << tests_run, tests_passed, observed, exit_code >>

\* The state outside the React client.
testVars == << evalVars, serviceVars, smokeVars >>

vars == << clientVars, testVars >>

Ids == 1..MaxRequests

Posts == { r \in inflight : r.kind = "POST" }

Gets == { r \in inflight : r.kind = "GET" }

\* What a step did on the network: it sent a request of the given kind
\* (with the question of its body), or handled a reply to one.
NetEvent(kind, event, code, body) ==
  [kind |-> kind, event |-> event, code |-> code, body |-> body]

\* The step was the user's or a render.
NoEvent == NetEvent("none", "none", 0, <<>>)

\* No status query has been answered 2xx yet.
NoReport == [id |-> 0, data |-> Null]

\* No body has been posted to the service yet.
NoRequest == [none |-> TRUE]

\* The script has not exited yet: no exit status.
Running == -1

Init ==
  /\ question = <<>>
  /\ answer = Null
  /\ loading = FALSE
  /\ status = Null
  /\ view = [question |-> <<>>, loading |-> FALSE]
  /\ syncPending = FALSE
  /\ inflight = {}
  /\ nextId = 1
  /\ last = NoEvent
  /\ posts = 0
  /\ accepted = 0
  /\ unhandled = FALSE
  /\ newest = NoReport
  /\ evalPrompt = 0
  /\ evalTest = 0
  /\ output = [code |-> 0, body |-> Null]
  /\ evalPass = FALSE
  /\ request = NoRequest
  /\ serviceReply = [code |-> 0, body |-> Null]
  /\ tests_run = 0
  /\ tests_passed = 0
  /\ observed = <<>>
  /\ exit_code = Running

(* ------------------------------ rendering ----------------------------- *)

\* React commits the pending state: the closures and the DOM follow it.
\* The updates of a click are committed when its task ends, those of a
\* promise continuation in a later task.
Render ==
  /\ syncPending \/ view # [question |-> question, loading |-> loading]
  /\ view' = [question |-> question, loading |-> loading]
  /\ syncPending' = FALSE
  /\ last' = NoEvent
  /\ UNCHANGED << question, answer, loading, status, inflight, nextId,
                  posts, accepted, unhandled,
                  newest, testVars >>

\* disabled={loading || !question.trim()} of the submit button.
SubmitDisabled(v) == v.loading \/ IsBlank(v.question)

(* ----------------------------- user events ---------------------------- *)

\* onChange of the controlled textarea: setQuestion(e.target.value); React
\* commits a controlled input's update before the event ends.
OnChange(q) ==
  /\ question' = q
  /\ view' = [question |-> q, loading |-> loading]
  /\ syncPending' = FALSE
  /\ last' = NoEvent
  /\ UNCHANGED << answer, loading, status, inflight, nextId, posts,
                  accepted, unhandled,
                  newest, testVars >>

\* onClick of a sample-question button: setQuestion(sampleQuestion).
ClickSample(i) ==
  /\ question' = sampleQuestions[i]
  /\ syncPending' = TRUE
  /\ last' = NoEvent
  /\ UNCHANGED << answer, loading, status, view, inflight, nextId, posts,
                  accepted, unhandled,
                  newest, testVars >>

\* fetch(`${backendUrl}/api/`, {method: 'POST', ...})
PostRequest(id) == [id |-> id, kind |-> "POST", phase |-> "fetch"]

\* fetch(`${backendUrl}/api/status`)
GetRequest(id) == [id |-> id, kind |-> "GET", phase |-> "fetch"]

\* handleSubmit up to its first await, with the question of its closure:
\* the body of the request is JSON.stringify({question}).
HandleSubmit(q) ==
  IF IsBlank(q)
  THEN UNCHANGED vars
  ELSE /\ loading' = TRUE
       /\ inflight' = inflight \cup { PostRequest(nextId) }
       /\ last' = NetEvent("POST", "sent", 0, q)
       /\ nextId' = nextId + 1
       /\ posts' = posts + 1
       /\ accepted' = accepted + 1
       /\ syncPending' = TRUE
       /\ UNCHANGED << question, answer, status, view, unhandled,
                  newest, testVars >>

\* A click on the submit button as the DOM has it: not disabled, the
\* required textarea not empty; the form's onSubmit runs handleSubmit.
SubmitClick ==
  /\ nextId <= MaxRequests
  /\ ~SubmitDisabled(view)
  /\ view.question # <<>>
  /\ HandleSubmit(view.question)

\* checkStatus up to its first await; the status button is never disabled.
ClickStatus ==
  /\ nextId <= MaxRequests
  /\ inflight' = inflight \cup { GetRequest(nextId) }
  /\ last' = NetEvent("GET", "sent", 0, <<>>)
  /\ nextId' = nextId + 1
  /\ UNCHANGED << question, answer, loading, status, view, syncPending,
                  posts, accepted, unhandled,
                  newest, testVars >>

(* ------------------------------ responses ----------------------------- *)

\* A later task starts: the commit that ended the task of the clicks has
\* run.
TaskStart ==
  /\ view' = IF syncPending
             THEN [question |-> question, loading |-> loading]
             ELSE view
  /\ syncPending' = FALSE

\* await fetch(...) resolves with a Response, whatever its status code: the
\* code is not read, and is chosen here with the body.
FetchResolve(r) ==
  /\ r.phase = "fetch"
  /\ last' = NetEvent(r.kind, "response", 0, <<>>)
  /\ inflight' = (inflight \ {r}) \cup { [r EXCEPT !.phase = "json"] }
  /\ UNCHANGED << question, answer, loading, status,
                  nextId, posts, accepted, unhandled,
                  newest, testVars >>

\* handleSubmit: setAnswer(data), then finally setLoading(false).
SubmitSucceeded(data) ==
  /\ answer' = data
  /\ loading' = FALSE
  /\ UNCHANGED << question, status, nextId, posts,
                  accepted, unhandled, testVars >>

\* A catch block that only logs, as the one of checkStatus does.
SubmitFailedSilent ==
  /\ loading' = FALSE
  /\ UNCHANGED << question, answer, status, nextId,
                  posts, accepted, unhandled,
                  newest, testVars >>

\* No finally block: setLoading(false) only after setAnswer(data).
SubmitFailedStuck ==
  /\ answer' = ErrorAnswer
  /\ UNCHANGED << question, loading, status, nextId,
                  posts, accepted, unhandled,
                  newest, testVars >>

\* handleSubmit: the catch block, then finally setLoading(false).
SubmitFailed ==
  /\ answer' = ErrorAnswer
  /\ loading' = FALSE
  /\ UNCHANGED << question, status, nextId, posts,
                  accepted, unhandled,
                  newest, testVars >>

\* checkStatus: setStatus(data).
StatusSucceeded(data) ==
  /\ status' = data
  /\ UNCHANGED << question, answer, loading, nextId,
                  posts, accepted, unhandled, testVars >>

\* The catch block of handleSubmit pasted into checkStatus.
StatusFailedLikeSubmit ==
  /\ answer' = ErrorAnswer
  /\ loading' = FALSE
  /\ UNCHANGED << question, status, nextId, posts,
                  accepted, unhandled,
                  newest, testVars >>

\* A catch block that clears the report: setStatus(null).
StatusFailedClears ==
  /\ status' = Null
  /\ UNCHANGED << question, answer, loading, nextId, posts, accepted,
                  unhandled, newest, testVars >>

\* checkStatus: the catch block only logs.
StatusFailed ==
  UNCHANGED << question, answer, loading, status, nextId,
               posts, accepted, unhandled,
                  newest, testVars >>

\* A rejected POST is sent again instead of being reported.
FetchRejectRetry(r) ==
  /\ r.phase = "fetch"
  /\ IF r.kind = "POST"
     THEN /\ last' = NetEvent("POST", "sent", 0, <<"a">>)
          /\ posts' = posts + 1
          /\ UNCHANGED << question, answer, loading, status, inflight, nextId, accepted,
                          unhandled,
                  newest, testVars >>
     ELSE /\ last' = NetEvent(r.kind, "rejected", 0, <<>>)
          /\ inflight' = inflight \ {r}
          /\ StatusFailed

\* await fetch(...) rejects: a network error or a timeout.
FetchReject(r) ==
  /\ r.phase = "fetch"
  /\ last' = NetEvent(r.kind, "rejected", 0, <<>>)
  /\ inflight' = inflight \ {r}
  /\ IF r.kind = "POST" THEN SubmitFailed ELSE StatusFailed

\* await response.json() resolves with the parsed body of a reply that has
\* the given status code.
JsonResolve(r, code, data) ==
  /\ r.phase = "json"
  /\ data \in JsonBodiesOf(r.kind, code)
  /\ last' = NetEvent(r.kind, "parsed", code, <<>>)
  /\ inflight' = inflight \ {r}
  /\ newest' = IF r.kind = "GET" /\ IsOk(code) /\ r.id > newest.id
               THEN [id |-> r.id, data |-> data]
               ELSE newest
  /\ IF r.kind = "POST" THEN SubmitSucceeded(data) ELSE StatusSucceeded(data)

\* await response.json() rejects: the body is not JSON.
JsonReject(r) ==
  /\ r.phase = "json"
  /\ last' = NetEvent(r.kind, "notjson", 0, <<>>)
  /\ inflight' = inflight \ {r}
  /\ IF r.kind = "POST" THEN SubmitFailed ELSE StatusFailed

\* The steps of the network for the request with ordinal id: each runs in a
\* task of its own, after the commit that ends the task of a click.
Settle(id) ==
  \E r \in inflight :
    /\ r.id = id
    /\ TaskStart
    /\ \/ FetchResolve(r)
       \/ FetchReject(r)
       \/ \E code \in StatusCodes :
            \E data \in JsonBodiesOf(r.kind, code) :
              JsonResolve(r, code, data)
       \/ JsonReject(r)

Next ==
  \/ Render
  \/ \E q \in Typed : OnChange(q)
  \/ \E i \in 1..MaxSample : ClickSample(i)
  \/ SubmitClick
  \/ ClickStatus
  \/ \E id \in Ids : Settle(id)

Spec == Init /\ [][Next]_vars

\* The commit that ends a task runs, and every request settles: the network
\* answers, fails or times out, and the event loop runs the continuation of
\* the settled promise.
FairSpec ==
  Spec /\ WF_vars(Render) /\ \A id \in Ids : WF_vars(Settle(id))

(* ------------------------- evaluation harness ------------------------- *)

\* A JSON value with its type, for the type tests of the assertions.
JString(s) == [type |-> "string", value |-> s]

JArray(a) == [type |-> "array", value |-> a]

JNull == [type |-> "null", value |-> <<>>]

\* prompts: of the evaluation configuration.
prompts ==
  << "Should I use gpt-4o-mini which AI proxy supports, or gpt3.5 turbo?",
     "What Python libraries are covered in the TDS course?",
     "How do I handle machine learning models in assignments?",
     "What are the key topics in Tools in Data Science?",
     "Can you explain the difference between supervised and unsupervised learning?",
     "How do I use pandas for data manipulation?",
     "What is the recommended approach for model evaluation?",
     "How should I implement cross-validation in my assignment?",
     "What are the best practices for data preprocessing?",
     "How do I choose the right machine learning algorithm for my dataset?" >>

\* tests: each names its prompt and the text its answer must contain.
tests ==
  << [prompt |-> prompts[1], contains |-> "gpt"],
     [prompt |-> prompts[2], contains |-> "Python"],
     [prompt |-> prompts[3], contains |-> "machine learning"],
     [prompt |-> prompts[4], contains |-> "data"],
     [prompt |-> prompts[5], contains |-> "learning"],
     [prompt |-> prompts[6], contains |-> "pandas"],
     [prompt |-> prompts[7], contains |-> "evaluation"],
     [prompt |-> prompts[8], contains |-> "validation"],
     [prompt |-> prompts[9], contains |-> "data"],
     [prompt |-> prompts[10], contains |-> "algorithm"] >>

\* The body the provider posts: question: '{{prompt}}'.
ProviderBody(prompt) == [question |-> prompt]

\* typeof output.answer === "string" && output.answer.length > 10
AssertAnswerString(out) ==
  /\ "answer" \in DOMAIN out
  /\ out.answer.type = "string"
  /\ Len(out.answer.value) > 10

\* Array.isArray(output.links)
AssertLinksArray(out) ==
  /\ "links" \in DOMAIN out
  /\ out.links.type = "array"

\* A request body is valid when it has a question that is not empty.
ValidQuestion(body) == "question" \in DOMAIN body /\ body.question # ""

\* The links the service sends with an answer.
ServiceLinks == { <<>>, << LinkA >>, << LinkA, LinkB >> }

\* A service that answers in a word and leaves links null when it found
\* nothing.
ServiceRepliesTerse(body) ==
  IF ValidQuestion(body)
  THEN { [code |-> 200,
          body |-> [answer |-> JString(<< "O", "K" >>), links |-> JNull]] }
       \cup { [code |-> 200,
               body |-> [answer |-> JString(AnswerTextA), links |-> JArray(l)]]
              : l \in ServiceLinks \ { <<>> } }
  ELSE { [code |-> 422, body |-> [detail |-> JString("Field required")]] }

\* A service that answers every body with 200, and reports a missing
\* question in the answer text.
ServiceRepliesLenient(body) ==
  IF ValidQuestion(body)
  THEN { [code |-> 200,
          body |-> [answer |-> JString(t), links |-> JArray(l)]]
         : t \in { AnswerTextA, AnswerTextB }, l \in ServiceLinks }
  ELSE { [code |-> 200,
          body |-> [answer |-> JString(ErrorText), links |-> JArray(<<>>)]] }

\* The question endpoint of the TA service: to a valid question, 200 and an
\* Answer whose text exceeds 10 characters and whose links are a sequence;
\* to a body without a question, 422.
ServiceReplies(body) ==
  IF ValidQuestion(body)
  THEN { [code |-> 200,
          body |-> [answer |-> JString(t), links |-> JArray(l)]]
         : t \in { AnswerTextA, AnswerTextB }, l \in ServiceLinks }
  ELSE { [code |-> 422, body |-> [detail |-> JString("Field required")]] }

\* One run of the evaluation: a prompt is posted to the provider and the
\* typed assertions of a test case are applied to the reply.
RunEval(p, t) ==
  \E reply \in ServiceReplies(ProviderBody(prompts[p])) :
    /\ evalPrompt' = p
    /\ evalTest' = t
    /\ output' = reply
    /\ evalPass' =
         (AssertAnswerString(reply.body) /\ AssertLinksArray(reply.body))
    /\ UNCHANGED << clientVars, serviceVars, smokeVars >>

NextEval ==
  \E p \in DOMAIN prompts : \E t \in DOMAIN tests : RunEval(p, t)

SpecEval == Init /\ [][NextEval]_vars

(* ----------------------------- TA service ----------------------------- *)

\* The image a question may carry, base64-encoded.
Image == "iVBORw0KGgo="

\* The body of the smoke test's invalid request.
InvalidBody == [invalid_field |-> "This should fail"]

\* The JSON objects posted to /api/: a question, with an image or without;
\* objects that lack the question field, the empty object among them; an
\* empty question.
RequestBodies ==
  { [question |-> prompts[p]] : p \in DOMAIN prompts }
    \cup { [question |-> prompts[p], image |-> Image] : p \in DOMAIN prompts }
    \cup { InvalidBody, [image |-> Image], [question |-> ""],
           [invalid_field |-> "This should fail", image |-> Image] }

\* POST /api/ with the given JSON body: the service replies.
Post(body) ==
  \E r \in ServiceReplies(body) :
    /\ request' = body
    /\ serviceReply' = r
    /\ UNCHANGED << clientVars, evalVars, smokeVars >>

NextService == \E body \in RequestBodies : Post(body)

SpecService == Init /\ [][NextService]_vars

(* ------------------------------ smoke test ---------------------------- *)

\* The calls of run_test, in the order of the script: method, endpoint,
\* data and expected status.
Tests ==
  << [name |-> "Root API Endpoint", method |-> "GET", endpoint |-> "",
      data |-> <<>>, expected_status |-> 200],
     [name |-> "Status Endpoint", method |-> "GET", endpoint |-> "status",
      data |-> <<>>, expected_status |-> 200],
     [name |-> "Question Endpoint - Sample 1", method |-> "POST",
      endpoint |-> "", data |-> [question |-> prompts[1]],
      expected_status |-> 200],
     [name |-> "Question Endpoint - Sample 2", method |-> "POST",
      endpoint |-> "", data |-> [question |-> prompts[2]],
      expected_status |-> 200],
     [name |-> "Invalid Request", method |-> "POST", endpoint |-> "",
      data |-> InvalidBody, expected_status |-> 422] >>

\* The last line of curl -s -w "\n%{http_code}": three digits, 000 when no
\* HTTP response was received; nothing at all when curl could not be run.
CurlStatus ==
  { << "0", "0", "0" >>, << "2", "0", "0" >>, << "4", "0", "4" >>,
    << "4", "2", "2" >>, << "5", "0", "0" >>, <<>> }

DigitValue(c) ==
  CASE c = "0" -> 0 [] c = "1" -> 1 [] c = "2" -> 2 [] c = "3" -> 3
    [] c = "4" -> 4 [] c = "5" -> 5 [] c = "6" -> 6 [] c = "7" -> 7
    [] c = "8" -> 8 [] c = "9" -> 9

\* The integer [ ... -eq ... ] reads from a text of decimal digits.
RECURSIVE IntOf(_)
IntOf(s) ==
  IF s = <<>> THEN 0
  ELSE 10 * IntOf(SubSeq(s, 1, Len(s) - 1)) + DigitValue(s[Len(s)])

\* A run_test that accepts every 2xx status.
run_test_2xx(status_code, expected_status) ==
  /\ status_code # <<>>
  /\ IntOf(status_code) >= 200
  /\ IntOf(status_code) <= 299

\* run_test: [ "$status_code" -eq "$expected_status" ]; the test is an
\* error, and so false, when status_code is empty.
run_test(status_code, expected_status) ==
  /\ status_code # <<>>
  /\ IntOf(status_code) = expected_status

\* The next check of the script: ((tests_run++)), run_test, and
\* ((tests_passed++)) if it returned 0.
RunTest(status_code) ==
  /\ exit_code = Running
  /\ tests_run < Len(Tests)
  /\ tests_run' = tests_run + 1
  /\ observed' = Append(observed, status_code)
  /\ tests_passed' =
       IF run_test(status_code, Tests[tests_run + 1].expected_status)
       THEN tests_passed + 1
       ELSE tests_passed
  /\ UNCHANGED << exit_code, clientVars, evalVars, serviceVars >>

\* The summary: exit 0 if tests_passed equals tests_run, else exit 1.
Exit ==
  /\ exit_code = Running
  /\ tests_run = Len(Tests)
  /\ exit_code' = IF tests_passed = tests_run THEN 0 ELSE 1
  /\ UNCHANGED << tests_run, tests_passed, observed, clientVars, evalVars,
                  serviceVars >>

NextSmoke ==
  \/ \E status_code \in CurlStatus : RunTest(status_code)
  \/ Exit

SpecSmoke == Init /\ [][NextSmoke]_vars

(* ------------------------------- claims ------------------------------- *)

\* Some character of s is not white space.
HasNonWhitespace(s) == \E i \in 1..Len(s) : s[i] \notin Whitespace

\* An error Answer: a text beginning with 'Error:' and no links.
IsErrorAnswer(v) ==
  /\ "answer" \in DOMAIN v
  /\ "links" \in DOMAIN v
  /\ StartsWith(v.answer, ErrorPrefix)
  /\ v.links = <<>>

\* The latest step of the network was a transport failure of a POST.
PostTransportFailed ==
  last.kind = "POST" /\ last.event \in {"rejected", "notjson"}

\* The latest step of the network parsed the JSON body of a non-2xx reply
\* to a POST.
PostProtocolError ==
  last.kind = "POST" /\ last.event = "parsed" /\ ~IsOk(last.code)

\* C1: while a question request is outstanding, loading is true (the
\* submit control is disabled for the whole flight).
C1_LoadingWhileOutstanding == Posts # {} => loading = TRUE

\* C2: at most one POST /api/ request is in flight at any time, also when
\* a second submit click is delivered before the component re-renders.
C2_AtMostOnePostInFlight == Cardinality(Posts) <= 1

\* C3: after a transport failure of a submission (fetch rejected, or the
\* body not JSON) no exception is unhandled and answer is exactly the
\* error Answer: a text beginning with 'Error:' and an empty links list.
C3_TransportFailureYieldsErrorAnswer ==
  PostTransportFailed =>
    /\ answer = ErrorAnswer
    /\ IsErrorAnswer(answer)
    /\ ~unhandled

C3_Witness ==
  /\ PostTransportFailed
  /\ last.event = "notjson"
  /\ answer = ErrorAnswer

\* The request with ordinal id is a submission still in flight.
Outstanding(id) == \E r \in Posts : r.id = id

\* C4: every submitted request settles, and loading is false again and
\* again, in the state and in the render the submit button was drawn from:
\* so every submission, settled or failed, is followed by a state in which
\* it is no longer outstanding and the interface is ready to submit.
C4_EventuallyReady ==
  /\ []<>(~loading /\ ~view.loading)
  /\ \A id \in Ids : []<>~Outstanding(id)

C4_Witness ==
  /\ posts = 2
  /\ answer = ErrorAnswer
  /\ Posts = {}
  /\ ~loading
  /\ ~view.loading

\* C5: after a protocol error (a non-2xx reply with a JSON body) to a
\* submission, answer is a substituted error message with an empty links
\* list, not the error body.
C5_ProtocolErrorSubstituted ==
  PostProtocolError => IsErrorAnswer(answer)

\* C6: a blank question is stopped before submission (the submit button
\* takes no click while the rendered question trims to nothing), and the
\* question in the body of a POST just sent has a character that is not
\* white space and is the question of the render handleSubmit closed over.
C6_BlankQuestionNeverSent ==
  /\ ~HasNonWhitespace(view.question) => ~ENABLED SubmitClick
  /\ (last.kind = "POST" /\ last.event = "sent") =>
       /\ HasNonWhitespace(last.body)
       /\ last.body = view.question

C6_Witness ==
  /\ view.question = << " " >>
  /\ ~ENABLED SubmitClick
  /\ posts = 1
  /\ nextId <= MaxRequests
  /\ ~loading /\ ~view.loading

\* C7: the client never has two HTTP requests outstanding, POST /api/ and
\* GET /api/status counted together.
C7_AtMostOneRequestInFlight == Cardinality(inflight) <= 1

\* C8: the POST requests issued are as many as the submit actions
\* accepted: no request is re-sent after a failure, none is skipped for a
\* cached answer.
C8_OnePostPerAcceptedSubmit == posts = accepted

C8_Witness ==
  /\ posts = 2
  /\ answer = ErrorAnswer
  /\ Posts # {}

\* C9: no step of checkStatus (sending the query, receiving the reply,
\* parsing it, failing) changes question, answer or loading, and the submit
\* button takes a click whenever it is rendered enabled, whatever the
\* status queries did.
C9_StatusQueryIndependent ==
  /\ [][last'.kind = "GET" => UNCHANGED << question, answer, loading >>]_vars
  /\ [](~SubmitDisabled(view) /\ nextId <= MaxRequests
          => ENABLED SubmitClick)

C9_Witness ==
  /\ last.kind = "GET"
  /\ last.event = "rejected"
  /\ status = Null
  /\ ENABLED SubmitClick

\* C10: the reply to a valid question has an answer that is a string
\* longer than 10 characters and a links field that is present and an
\* array, possibly empty, never null.
C10_AnswerShape ==
  (evalPrompt # 0 /\ ValidQuestion(ProviderBody(prompts[evalPrompt]))) =>
    /\ DOMAIN output.body = { "answer", "links" }
    /\ output.body.answer.type = "string"
    /\ Len(output.body.answer.value) > 10
    /\ output.body.links.type = "array"
    /\ output.body.links.value \in Seq([url : STRING, text : STRING])

C10_Witness ==
  /\ evalPrompt = 10
  /\ evalTest = 1
  /\ output.code = 200
  /\ output.body.links = JArray(<<>>)
  /\ evalPass

\* C11: to a POST to the question endpoint whose JSON body lacks the
\* question field, the service replies 422, never 200.
C11_MissingQuestionIs422 ==
  (request # NoRequest /\ "question" \notin DOMAIN request) =>
    (serviceReply.code = 422 /\ serviceReply.code # 200)

C11_Witness ==
  /\ request = InvalidBody
  /\ serviceReply.code = 422

\* The status codes the five checks expect, as curl prints them.
ExpectedText ==
  << << "2", "0", "0" >>, << "2", "0", "0" >>, << "2", "0", "0" >>,
     << "2", "0", "0" >>, << "4", "2", "2" >> >>

\* The checks run so far whose observed status code is the expected one.
Matching == { i \in 1..Len(observed) : observed[i] = ExpectedText[i] }

\* C12: the script runs its five checks in order whatever the earlier ones
\* gave and exits only after the fifth; a check counts as passed exactly
\* when the status code observed is the expected one (200, 200, 200, 200,
\* 422); tests_passed <= tests_run, which is 5 at the end; the exit status
\* is 0 if all five passed and 1 otherwise.
C12_SmokeTestCounts ==
  /\ tests_run = Len(observed)
  /\ tests_run <= 5
  /\ tests_passed = Cardinality(Matching)
  /\ tests_passed <= tests_run
  /\ (exit_code = Running /\ tests_run < 5) =>
       \A c \in CurlStatus : ENABLED RunTest(c)
  /\ exit_code # Running =>
       /\ tests_run = 5
       /\ exit_code \in {0, 1}
       /\ exit_code = 0 <=> tests_passed = 5

C12_Witness ==
  /\ exit_code = 1
  /\ tests_run = 5
  /\ tests_passed = 4
  /\ observed[1] = << "0", "0", "0" >>
  /\ observed[5] = << "4", "2", "2" >>

\* The event is the failure of a status query: fetch rejected, or the body
\* was not JSON.
StatusQueryFailed(event) ==
  event.kind = "GET" /\ event.event \in {"rejected", "notjson"}

\* C13: the step that handles a failed status query leaves status as it
\* was, so a StatusReport shown before stays shown; it stores no error
\* indication, in status or in answer; and no promise of a handler is ever
\* left rejected.
C13_StatusFailureKeepsStatus ==
  /\ [][StatusQueryFailed(last') =>
          (status' = status /\ answer' = answer)]_vars
  /\ [](~unhandled)

C13_Witness ==
  /\ StatusQueryFailed(last)
  /\ last.event = "notjson"
  /\ status \in StatusBodies
  /\ ~unhandled

\* C14: once no status query is in flight, status is the StatusReport that
\* answered the latest-issued of the queries answered 2xx, in whatever
\* order the replies arrived.
C14_StatusIsNewestReport ==
  (Gets = {} /\ newest.id # 0) => status = newest.data

====
